---- MODULE Spec2Model ----
(***************************************************************************)
(* Model of the SDXL-DJ generation engine: the three IPC handlers of       *)
(* electron/main.js (load-model, generate-image, dispose-model), the       *)
(* module-level state they share, and the SimpleWorkspace renderer that    *)
(* drives them.  Every handler is an async function: each action below is  *)
(* one synchronous segment of a handler, from one await to the next.       *)
(***************************************************************************)
EXTENDS Integers, Sequences, FiniteSets, TLC

\* ---------------------------------------------------------------- bounds
\* IPC invocations that may be in flight (or awaiting pickup) at once.
MaxCalls == 2
\* load-model invocations per behaviour of the lifecycle runs, of the request
\* runs and of the UI runs; a handle is named by the load that made it.
MaxLoads == 2
MaxLoadsRequests == 1
MaxLoadsUI == 1

Slots == 1..MaxCalls
Kinds == {"unet", "te", "vae"}

\* ----------------------------------------------------------------- state
VARIABLES
  unetSession,        \* main.js:83  0 is null, n is the handle load n created
  textEncoderSession, \* main.js:84
  vaeDecoderSession,  \* main.js:85
  tokenizer,          \* main.js:86  "null", "clip" or "hash"
  bufferPool,         \* main.js:89  byte length -> what the pooled buffer holds
  calls,              \* the handler invocations, one record per slot
  nLoads,             \* history: load-model invocations so far
  lastLoad,           \* history: outcome of the last load to return
  lastDispose,        \* history: how a dispose that ran alone returned; "none"
                      \* once another call starts
  isPlaying,          \* SimpleWorkspace.tsx:59
  hasPrompt,          \* SimpleWorkspace.tsx:73  an active prompt has text
  modelsLoaded,       \* window.modelsLoaded
  hashFresh,          \* prevStateRef.current matches the current UI state
  evaluated           \* log of helper evaluations: what each was applied to
                      \* and what it returned

engine == <<unetSession, textEncoderSession, vaeDecoderSession, tokenizer>>
history == <<nLoads, lastLoad, lastDispose>>
ui == <<isPlaying, hasPrompt, modelsLoaded, hashFresh>>
vars == <<engine, bufferPool, calls, history, ui, evaluated>>

\* ---------------------------------------------------------------- values
\* A prompt as generate-image receives it: absent, or a string of characters.
NoPrompt == [defined |-> FALSE, text |-> <<>>]
Str(t) == [defined |-> TRUE, text |-> t]
\* Prompts generate-image rejects, and one it accepts.
BadPrompts == {NoPrompt, Str(<<>>), Str(<<" ">>)}
GoodPrompt == Str(<<"a">>)

\* Requested sizes: a multiple of 8, not a multiple of 8, negative.
Dims == {<<8, 8>>, <<4, 8>>, <<-8, 8>>}
\* Sizes a decoder returns.
DecodedDims == {<<8, 8>>, <<16, 8>>}

\* The requests of the request-validation runs: each bad prompt at the
\* default seed and a regular size, the good prompt at every size.
Configs ==
  [prompt : BadPrompts, dims : {<<8, 8>>}, seed : {42}, steps : {1}]
  \cup [prompt : {GoodPrompt}, dims : Dims, seed : {42}, steps : {1}]
\* The requests of the lifecycle runs: a rejected one and a regular one.
LifecycleConfigs ==
  [prompt : {Str(<<>>), GoodPrompt}, dims : {<<8, 8>>}, seed : {42}, steps : {1}]
NoCfg == [prompt |-> NoPrompt, dims |-> <<0, 0>>, seed |-> 0, steps |-> 0]

\* What a pixel buffer holds: the inputs the fill was computed from.
NoImage == <<0, 0, 0, 0>>
\* Byte lengths the pool can be asked for.
Sizes == {n \in {d[1] * d[2] * 4 : d \in Dims} : n >= 0}
\* A pool entry: the buffer stored under a byte length, named by the order
\* of its creation, with its own length and what it holds.
NoBuffer == [present |-> FALSE, id |-> 0, length |-> 0, holds |-> NoImage]

\* A result: source is the path that built it, keys are the entries of its
\* metadata object, bytes and pixels are imageData, and shares is the pooled
\* buffer whose storage imageData is (0: storage of its own).
NoRes == [success |-> FALSE, source |-> "none", width |-> 0, height |-> 0,
          bytes |-> 0, note |-> "none", keys |-> {}, pixels |-> NoImage,
          shares |-> 0]
Failure == [NoRes EXCEPT !.source = "error"]
Threw == [NoRes EXCEPT !.source = "exception"]

Idle == [kind |-> "idle", pc |-> "idle", cfg |-> NoCfg, h |-> 0,
         ran |-> <<>>, used |-> <<>>, failed |-> "none", alone |-> TRUE,
         res |-> NoRes]

InFlight(s) == calls[s].pc \notin {"idle", "done"}
Busy(kind) == {s \in Slots : calls[s].kind = kind /\ InFlight(s)}

\* String.prototype.trim on the model's characters.
RECURSIVE TrimLeft(_)
TrimLeft(t) == IF t # <<>> /\ Head(t) = " " THEN TrimLeft(Tail(t)) ELSE t
RECURSIVE TrimRight(_)
TrimRight(t) ==
  IF t # <<>> /\ t[Len(t)] = " " THEN TrimRight(SubSeq(t, 1, Len(t) - 1)) ELSE t
Trim(t) == TrimRight(TrimLeft(t))

\* ------------------------------------------------------------------ init
Init ==
  /\ unetSession = 0
  /\ textEncoderSession = 0
  /\ vaeDecoderSession = 0
  /\ tokenizer = "null"
  /\ bufferPool = [n \in Sizes |-> NoBuffer]
  /\ calls = [s \in Slots |-> Idle]
  /\ nLoads = 0
  /\ lastLoad = "none"
  /\ lastDispose = "none"
  /\ isPlaying = FALSE
  /\ hasPrompt = FALSE
  /\ modelsLoaded = FALSE
  /\ hashFresh = FALSE
  /\ evaluated = <<>>

\* --------------------------------------------------- handler bookkeeping
\* The slot a new invocation takes.
FreeSlot == CHOOSE s \in Slots : calls[s].kind = "idle" /\
                                 \A t \in Slots : calls[t].kind = "idle" => s <= t
HasFreeSlot == \E s \in Slots : calls[s].kind = "idle"

\* calls after slot s becomes c; a call that starts beside another in flight
\* is no longer alone, and neither is the other.
Started(s, c) ==
  LET others == {t \in Slots \ {s} : InFlight(t)}
  IN [t \in Slots |->
        IF t = s THEN [c EXCEPT !.alone = (others = {})]
        ELSE IF t \in others THEN [calls[t] EXCEPT !.alone = FALSE]
        ELSE calls[t]]

Returned(c, r) == [c EXCEPT !.pc = "done", !.res = r]

\* ------------------------------------------------------------ load-model
\* main.js:193-224: the handler starts; a missing model.onnx throws to the
\* outer catch (344-347), otherwise UNet construction is awaited (231).
LoadStart(s, modelFileExists) ==
  /\ nLoads' = nLoads + 1
  /\ lastDispose' = "none"
  /\ IF modelFileExists
     THEN /\ calls' = Started(s, [Idle EXCEPT !.kind = "load", !.pc = "unet",
                                              !.h = nLoads + 1])
          /\ lastLoad' = lastLoad
     ELSE /\ calls' = Started(s, Returned([Idle EXCEPT !.kind = "load",
                                                 !.h = nLoads + 1], Failure))
          /\ lastLoad' = "failure"
  /\ UNCHANGED <<engine, bufferPool, evaluated>>

\* main.js:337-343: a rejected construction ends the load with failure;
\* nothing assigned so far is undone.
LoadFailed(s) ==
  /\ calls' = [calls EXCEPT ![s] = Returned(calls[s], Failure)]
  /\ lastLoad' = "failure"

\* main.js:231-244: UNet constructed and assigned; text encoder awaited.
LoadUnet(s, ok) ==
  /\ calls[s].kind = "load" /\ calls[s].pc = "unet"
  /\ IF ok
     THEN /\ unetSession' = calls[s].h
          /\ calls' = [calls EXCEPT ![s].pc = "te"]
          /\ lastLoad' = lastLoad
     ELSE /\ LoadFailed(s)
          /\ unetSession' = unetSession
  /\ UNCHANGED <<textEncoderSession, vaeDecoderSession, tokenizer, bufferPool, evaluated,
                 nLoads, lastDispose, ui>>

\* main.js:244-257: text encoder constructed and assigned; VAE awaited.
LoadTextEncoder(s, ok) ==
  /\ calls[s].kind = "load" /\ calls[s].pc = "te"
  /\ IF ok
     THEN /\ textEncoderSession' = calls[s].h
          /\ calls' = [calls EXCEPT ![s].pc = "vae"]
          /\ lastLoad' = lastLoad
     ELSE /\ LoadFailed(s)
          /\ textEncoderSession' = textEncoderSession
  /\ UNCHANGED <<unetSession, vaeDecoderSession, tokenizer, bufferPool, evaluated,
                 nLoads, lastDispose, ui>>

\* A tokenizer construction whose failure leaves no tokenizer.
LoadTokenizerStrict(vocabOk) == IF vocabOk THEN "clip" ELSE "null"

\* main.js:273-326: the vocabulary-backed tokenizer when vocab.json and
\* merges.txt can be read and parsed, the hash tokenizer otherwise.
LoadTokenizer(vocabOk) == IF vocabOk THEN "clip" ELSE "hash"

\* main.js:328-336: the success result reads unetSession.inputNames and
\* textEncoderSession.inputNames; on a null session that read throws into
\* the modelError catch (337-343).
LoadResult ==
  IF unetSession # 0 /\ textEncoderSession # 0
  THEN [NoRes EXCEPT !.success = TRUE, !.source = "load"]
  ELSE Failure

\* main.js:257-343: VAE constructed and assigned, tokenizer installed, result.
LoadVae(s, ok, vocabOk) ==
  /\ calls[s].kind = "load" /\ calls[s].pc = "vae"
  /\ IF ok
     THEN /\ vaeDecoderSession' = calls[s].h
          /\ tokenizer' = LoadTokenizer(vocabOk)
          /\ calls' = [calls EXCEPT ![s] = Returned(calls[s], LoadResult)]
          /\ lastLoad' = IF LoadResult.success THEN "success" ELSE "failure"
     ELSE /\ LoadFailed(s)
          /\ UNCHANGED <<vaeDecoderSession, tokenizer>>
  /\ UNCHANGED <<unetSession, textEncoderSession, bufferPool, evaluated, nLoads,
                 lastDispose, ui>>

\* -------------------------------------------------------- generate-image
\* The prompt test without the trim: what line 365 would be as
\* !prompt || prompt === ''.
PromptRejectedNoTrim(p) == ~p.defined \/ p.text = <<>>

\* main.js:365: !prompt || prompt.trim() === ''
PromptRejected(p) == ~p.defined \/ p.text = <<>> \/ Trim(p.text) = <<>>

\* main.js:370: the negation of the "models not fully loaded" test.
IsReady ==
  /\ unetSession # 0
  /\ textEncoderSession # 0
  /\ vaeDecoderSession # 0
  /\ tokenizer # "null"

\* main.js:724-727: the outer catch turns any exception into a result.
GenerateCatch == Failure

\* The handler without the inner catch: the stage's exception reaches the
\* outer one.
InferenceRethrow(c, stage) == Returned([c EXCEPT !.failed = stage], GenerateCatch)

\* An inner catch that goes on to the decoder after a failed stage.
InferenceSkip(c, stage) ==
  [c EXCEPT !.pc = "vae", !.failed = stage, !.ran = Append(@, "vae")]

\* main.js:614-618: the inner catch logs the failed stage and falls through
\* to the placeholder generation, which starts with the simulated delay (629).
InferenceCatch(c, stage) == [c EXCEPT !.pc = "delay", !.failed = stage]

\* main.js:101-107: the length of createNoiseLatent's Float32Array.
NoiseLength(cfg) == 1 * 4 * (cfg.dims[2] \div 8) * (cfg.dims[1] \div 8)

\* char.charCodeAt(0)
CharCode(ch) ==
  CASE ch = " " -> 32 [] ch = "." -> 46 [] ch = "A" -> 65 [] ch = "_" -> 95
    [] ch = "z" -> 122 [] OTHER -> 97
\* main.js:642
PromptHash(p) == Len(p.text) * 17 + CharCode(p.text[1]) * 23
\* main.js:640-703: the fill is computed from seed, prompt, width and height.
FallbackImage(cfg) ==
  <<cfg.seed, PromptHash(cfg.prompt), cfg.dims[1], cfg.dims[2]>>
\* main.js:569-589: the model-path buffer is computed from the decoded tensor.
DecodedImage(decoded) == <<0, 0, decoded[1], decoded[2]>>

\* getBuffer without the has() test: a new buffer on every call.
getBufferNew(size) ==
  [bufferPool EXCEPT ![size] =
     [present |-> TRUE, id |-> bufferPool[size].id + Cardinality(Sizes) + 1,
      length |-> size, holds |-> NoImage]]

\* main.js:90-96: the pool after getBuffer(size); a new entry is a zero-filled
\* Uint8Array(size), the next buffer created.
getBuffer(size) ==
  IF bufferPool[size].present THEN bufferPool
  ELSE [bufferPool EXCEPT ![size] =
          [present |-> TRUE,
           id |-> Cardinality({n \in Sizes : bufferPool[n].present}) + 1,
           length |-> size, holds |-> NoImage]]

\* main.js:714-721: the entries of the placeholder result's metadata.
MetadataKeys == {"width", "height", "steps", "seed", "prompt", "format"}

\* main.js:601-611: the entries of the model-path result's metadata.
ModelMetadataKeys == MetadataKeys \cup {"note"}

\* The model-path result with the metadata of the request: the decoder's
\* size goes unreported.
ModelResultResized(cfg, decoded) ==
  [success |-> TRUE, source |-> "model",
   width |-> cfg.dims[1], height |-> cfg.dims[2],
   bytes |-> decoded[1] * decoded[2] * 4,
   note |-> "matches",
   keys |-> ModelMetadataKeys,
   pixels |-> DecodedImage(decoded),
   shares |-> 0]

\* The model-path result with a note that never reports a mismatch.
ModelResultSilent(cfg, decoded) ==
  [success |-> TRUE, source |-> "model",
   width |-> decoded[1], height |-> decoded[2],
   bytes |-> decoded[1] * decoded[2] * 4,
   note |-> "matches",
   keys |-> ModelMetadataKeys,
   pixels |-> DecodedImage(decoded),
   shares |-> 0]

\* main.js:554-612: the model-path result, sized by the decoder's output.
ModelResult(cfg, decoded) ==
  [success |-> TRUE, source |-> "model",
   width |-> decoded[1], height |-> decoded[2],
   bytes |-> decoded[1] * decoded[2] * 4,
   note |-> IF decoded[1] # cfg.dims[1] \/ decoded[2] # cfg.dims[2]
            THEN "differs" ELSE "matches",
   keys |-> ModelMetadataKeys,
   pixels |-> DecodedImage(decoded),
   shares |-> 0]

\* What a caller reads in the imageData of result r now.
imageData(r) ==
  IF r.shares = 0 THEN r.pixels
  ELSE LET n == CHOOSE m \in Sizes : bufferPool[m].id = r.shares
       IN bufferPool[n].holds

\* The placeholder result without the copy: imageData is the pooled buffer.
FallbackResultShared(cfg) ==
  [success |-> TRUE, source |-> "fallback",
   width |-> cfg.dims[1], height |-> cfg.dims[2],
   bytes |-> cfg.dims[1] * cfg.dims[2] * 4,
   note |-> "none",
   keys |-> MetadataKeys,
   pixels |-> FallbackImage(cfg),
   shares |-> getBuffer(cfg.dims[1] * cfg.dims[2] * 4)[cfg.dims[1] * cfg.dims[2] * 4].id]

\* main.js:708-722: the placeholder result, a copy of the pooled buffer.
FallbackResult(cfg) ==
  [success |-> TRUE, source |-> "fallback",
   width |-> cfg.dims[1], height |-> cfg.dims[2],
   bytes |-> cfg.dims[1] * cfg.dims[2] * 4,
   note |-> "none",
   keys |-> MetadataKeys,
   pixels |-> FallbackImage(cfg),
   shares |-> 0]

\* main.js:350-426: validation, the readiness test, tokenization and the
\* call of the text encoder.
GenerateEnter(cfg, tokOk) ==
  LET c == [Idle EXCEPT !.kind = "generate", !.cfg = cfg]
  IN IF PromptRejected(cfg.prompt) THEN Returned(c, GenerateCatch)
     ELSE IF ~IsReady THEN [c EXCEPT !.pc = "delay"]
     ELSE IF ~tokOk THEN InferenceCatch(c, "tokenize")
     ELSE [c EXCEPT !.pc = "te", !.ran = <<"te">>, !.used = <<textEncoderSession>>]

GenerateStart(s, cfg, tokOk) ==
  /\ calls' = Started(s, GenerateEnter(cfg, tokOk))
  /\ lastDispose' = "none"
  /\ UNCHANGED <<engine, bufferPool, evaluated, nLoads, lastLoad>>

\* A UNet call whose null session escapes the inner try: the outer catch
\* answers.
GenerateTextEncodedUnguarded(s, ok) ==
  /\ calls[s].kind = "generate" /\ calls[s].pc = "te"
  /\ calls' = [calls EXCEPT ![s] =
       IF ~ok THEN InferenceCatch(@, "te")
       ELSE IF NoiseLength(@.cfg) < 0 THEN InferenceCatch(@, "noise")
       ELSE IF unetSession = 0 THEN Returned([@ EXCEPT !.failed = "unet"], GenerateCatch)
       ELSE [@ EXCEPT !.pc = "unet", !.ran = Append(@, "unet"),
                      !.used = Append(@, unetSession)]]
  /\ UNCHANGED <<engine, bufferPool, evaluated, history, ui>>

\* main.js:424-473: the embedding arrives, the noise latent is built and the
\* UNet is called; a null unetSession throws at the call.
GenerateTextEncoded(s, ok) ==
  /\ calls[s].kind = "generate" /\ calls[s].pc = "te"
  /\ calls' = [calls EXCEPT ![s] =
       IF ~ok THEN InferenceCatch(@, "te")
       ELSE IF NoiseLength(@.cfg) < 0 THEN InferenceCatch(@, "noise")
       ELSE IF unetSession = 0 THEN InferenceCatch(@, "unet")
       ELSE [@ EXCEPT !.pc = "unet", !.ran = Append(@, "unet"),
                      !.used = Append(@, unetSession)]]
  /\ UNCHANGED <<engine, bufferPool, evaluated, history, ui>>

\* A denoiser that is called once per requested step.
GenerateDenoisedPerStep(s, ok) ==
  /\ calls[s].kind = "generate" /\ calls[s].pc = "unet"
  /\ calls' = [calls EXCEPT ![s] =
       IF ~ok THEN InferenceCatch(@, "unet")
       ELSE IF Len(@.ran) - 1 < @.cfg.steps /\ unetSession # 0
       THEN [@ EXCEPT !.ran = Append(@, "unet"), !.used = Append(@, unetSession)]
       ELSE IF vaeDecoderSession = 0 THEN InferenceCatch(@, "vae")
       ELSE [@ EXCEPT !.pc = "vae", !.ran = Append(@, "vae"),
                      !.used = Append(@, vaeDecoderSession)]]
  /\ UNCHANGED <<engine, bufferPool, evaluated, history, ui>>

\* main.js:462-531: the latent arrives, is rescaled and reduced, and the VAE
\* decoder is called; a null vaeDecoderSession throws at inputNames (520).
GenerateDenoised(s, ok) ==
  /\ calls[s].kind = "generate" /\ calls[s].pc = "unet"
  /\ calls' = [calls EXCEPT ![s] =
       IF ~ok THEN InferenceCatch(@, "unet")
       ELSE IF vaeDecoderSession = 0 THEN InferenceCatch(@, "vae")
       ELSE [@ EXCEPT !.pc = "vae", !.ran = Append(@, "vae"),
                      !.used = Append(@, vaeDecoderSession)]]
  /\ UNCHANGED <<engine, bufferPool, evaluated, history, ui>>

\* main.js:531-612: the decoded image arrives and is converted and returned.
GenerateDecoded(s, ok, decoded) ==
  /\ calls[s].kind = "generate" /\ calls[s].pc = "vae"
  /\ calls' = [calls EXCEPT ![s] =
       IF ~ok THEN InferenceCatch(@, "vae")
       ELSE Returned(@, ModelResult(@.cfg, decoded))]
  /\ UNCHANGED <<engine, bufferPool, evaluated, history, ui>>

\* main.js:625-722: after the simulated delay the pooled buffer is acquired,
\* filled and copied out; a negative length throws in getBuffer (92) and the
\* outer catch answers.
\* A placeholder generation that yields between its fill and its copy: the
\* result is what the pooled buffer holds when the copy is made.
GenerateFallbackYielding(s) ==
  /\ calls[s].kind = "generate" /\ calls[s].pc \in {"delay", "copy"}
  /\ LET cfg == calls[s].cfg
         bufferSize == cfg.dims[1] * cfg.dims[2] * 4
     IN IF bufferSize < 0
        THEN /\ calls' = [calls EXCEPT ![s] = Returned(@, GenerateCatch)]
             /\ bufferPool' = bufferPool
        ELSE IF calls[s].pc = "delay"
        THEN /\ calls' = [calls EXCEPT ![s].pc = "copy"]
             /\ bufferPool' = [getBuffer(bufferSize) EXCEPT
                                 ![bufferSize].holds = FallbackImage(cfg)]
        ELSE /\ calls' = [calls EXCEPT ![s] =
                            Returned(@, [FallbackResult(cfg) EXCEPT
                                           !.pixels = bufferPool[bufferSize].holds])]
             /\ bufferPool' = bufferPool
  /\ UNCHANGED <<engine, history, ui, evaluated>>

GenerateFallback(s) ==
  /\ calls[s].kind = "generate" /\ calls[s].pc = "delay"
  /\ LET cfg == calls[s].cfg
         bufferSize == cfg.dims[1] * cfg.dims[2] * 4
     IN IF bufferSize < 0
        THEN /\ calls' = [calls EXCEPT ![s] = Returned(@, GenerateCatch)]
             /\ bufferPool' = bufferPool
        ELSE /\ calls' = [calls EXCEPT ![s] = Returned(@, FallbackResult(cfg))]
             /\ bufferPool' = [getBuffer(bufferSize) EXCEPT
                                 ![bufferSize].holds = FallbackImage(cfg)]
  /\ UNCHANGED <<engine, history, ui, evaluated>>

\* --------------------------------------------------------- dispose-model
Success == [NoRes EXCEPT !.success = TRUE, !.source = "dispose"]

\* The handler without its catch: the rejection leaves the handler.
DisposeRethrow == Threw

\* main.js:746-749: a rejected release ends the handler in its catch.
DisposeCatch == Failure

Stage(k) == CASE k = "unet" -> 1 [] k = "te" -> 2 [] k = "vae" -> 3
KindAt(i) == CASE i = 1 -> "unet" [] i = 2 -> "te" [] i = 3 -> "vae"

\* main.js:732-745: from the i-th test on, the first session that is held is
\* released and awaited; when none is left the handler returns success.
\* sess is the three sessions as the handler reads them now.
DisposeFrom(c, i, sess) ==
  LET held == {j \in i..3 : sess[j] # 0}
  IN IF held = {} THEN Returned(c, Success)
     ELSE LET j == CHOOSE x \in held : \A y \in held : x <= y
          IN [c EXCEPT !.pc = KindAt(j), !.h = sess[j]]

\* history: what lastDispose records when the dispose call becomes c: its
\* answer, when it has returned and no other call ran beside it.
DisposeOutcome(c) ==
  IF c.pc = "done" /\ c.alone
  THEN IF c.res.success THEN "success" ELSE "failure"
  ELSE "none"

DisposeStart(s) ==
  LET c == DisposeFrom([Idle EXCEPT !.kind = "dispose"], 1,
                       <<unetSession, textEncoderSession, vaeDecoderSession>>)
  IN /\ calls' = Started(s, c)
     /\ lastDispose' = DisposeOutcome(Started(s, c)[s])
     /\ UNCHANGED <<engine, bufferPool, evaluated, nLoads, lastLoad>>

\* main.js:733-743: the awaited release settles; on success the session
\* variable is set to null and the next session is tested.
DisposeReleased(s, ok) ==
  /\ calls[s].kind = "dispose" /\ calls[s].pc \in Kinds
  /\ LET k == calls[s].pc
         sess == [<<unetSession, textEncoderSession, vaeDecoderSession>>
                    EXCEPT ![Stage(k)] = 0]
         c == IF ok THEN DisposeFrom(calls[s], Stage(k) + 1, sess)
              ELSE Returned(calls[s], DisposeCatch)
     IN /\ calls' = [calls EXCEPT ![s] = c]
        /\ unetSession' = IF ok THEN sess[1] ELSE unetSession
        /\ textEncoderSession' = IF ok THEN sess[2] ELSE textEncoderSession
        /\ vaeDecoderSession' = IF ok THEN sess[3] ELSE vaeDecoderSession
        /\ lastDispose' = DisposeOutcome(c)
  /\ UNCHANGED <<tokenizer, bufferPool, evaluated, nLoads, lastLoad, ui>>

\* ------------------------------------------------- the engine's handlers
\* The segments of the three handlers that run when an awaited operation
\* settles, with every outcome the awaited operation can have.
Handlers ==
  \E s \in Slots :
    \/ \E ok \in BOOLEAN : LoadUnet(s, ok)
    \/ \E ok \in BOOLEAN : LoadTextEncoder(s, ok)
    \/ \E ok \in BOOLEAN, vocabOk \in BOOLEAN : LoadVae(s, ok, vocabOk)
    \/ \E ok \in BOOLEAN : GenerateTextEncoded(s, ok)
    \/ \E ok \in BOOLEAN : GenerateDenoised(s, ok)
    \/ \E ok \in BOOLEAN, decoded \in DecodedDims : GenerateDecoded(s, ok, decoded)
    \/ GenerateFallback(s)
    \/ \E ok \in BOOLEAN : DisposeReleased(s, ok)

\* ------------------------------------------- any client of the preload API
\* preload.js: loadModel, generateImage and disposeModel are plain
\* ipcRenderer.invoke calls; a client may issue them in any order and
\* need not wait for one to return before issuing the next.
ApiLoad == /\ HasFreeSlot /\ nLoads < MaxLoads
           /\ \E modelFileExists \in BOOLEAN : LoadStart(FreeSlot, modelFileExists)
           /\ UNCHANGED ui
ApiGenerate(cfgs) == /\ HasFreeSlot
                     /\ \E cfg \in cfgs, tokOk \in BOOLEAN :
                          GenerateStart(FreeSlot, cfg, tokOk)
                     /\ UNCHANGED ui
ApiDispose == HasFreeSlot /\ DisposeStart(FreeSlot) /\ UNCHANGED ui
\* The invoke promise resolves with the handler's result.
ApiReceive(s) ==
  /\ calls[s].pc = "done"
  /\ calls' = [calls EXCEPT ![s] = Idle]
  /\ UNCHANGED <<engine, bufferPool, evaluated, history, ui>>

\* Lifecycle runs: loads, disposes and generations in any interleaving.
Next == ApiLoad \/ ApiGenerate(LifecycleConfigs) \/ ApiDispose \/ Handlers
        \/ \E s \in Slots : ApiReceive(s)

Spec == Init /\ [][Next]_vars

\* Request runs: every kind of request, against an engine that is loaded at
\* most once.
ApiLoadOnce == nLoads < MaxLoadsRequests /\ ApiLoad
RequestsNext == ApiLoadOnce \/ ApiGenerate(Configs) \/ ApiDispose \/ Handlers
                \/ \E s \in Slots : ApiReceive(s)

SpecRequests == Init /\ [][RequestsNext]_vars

\* Step runs: requests that differ in the number of steps they ask for
\* (main.js:359), against an engine that is loaded at most once.
StepConfigs == [prompt : {GoodPrompt}, dims : {<<8, 8>>}, seed : {42}, steps : {1, 4}]
StepsNext == ApiLoadOnce \/ ApiGenerate(StepConfigs) \/ ApiDispose \/ Handlers
             \/ \E s \in Slots : ApiReceive(s)

SpecSteps == Init /\ [][StepsNext]_vars

\* ------------------------------------------------ the SimpleWorkspace UI
\* SimpleWorkspace.tsx:176-184: the request generateImage sends; the combined
\* prompt is "(text:weight)" and the size is one of RESOLUTION_OPTIONS (35-46),
\* all multiples of 8.
UIConfig == [prompt |-> GoodPrompt, dims |-> <<8, 8>>, seed |-> 42, steps |-> 1]

\* SimpleWorkspace.tsx:141-184: generateImage up to its await; it is only
\* reached with a non-empty combined prompt (145).
UIGenerateImage(s) == \E tokOk \in BOOLEAN : GenerateStart(s, UIConfig, tokOk)

\* SimpleWorkspace.tsx:606-610, 395-402: the user edits a prompt or the seed,
\* or an effect modulates them: the state hash no longer matches.
UIChange ==
  /\ \E p \in BOOLEAN : hasPrompt' = p /\ (p # hasPrompt \/ hashFresh)
  /\ hashFresh' = FALSE
  /\ UNCHANGED <<engine, bufferPool, evaluated, calls, history, isPlaying, modelsLoaded>>

\* SimpleWorkspace.tsx:514-524: Play starts playing with models not loaded:
\* loadModel is invoked and awaited.
UIPlayLoad ==
  /\ ~isPlaying /\ hasPrompt /\ ~modelsLoaded /\ HasFreeSlot
  /\ nLoads < MaxLoadsUI
  /\ isPlaying' = TRUE
  /\ \E modelFileExists \in BOOLEAN : LoadStart(FreeSlot, modelFileExists)
  /\ UNCHANGED <<hasPrompt, modelsLoaded, hashFresh>>

\* SimpleWorkspace.tsx:514-520, 541-544: Play starts playing with models
\* loaded: generateImage is called at once.
UIPlayGenerate ==
  /\ ~isPlaying /\ hasPrompt /\ modelsLoaded /\ HasFreeSlot
  /\ isPlaying' = TRUE
  /\ UIGenerateImage(FreeSlot)
  /\ UNCHANGED <<hasPrompt, modelsLoaded, hashFresh>>

\* A Play toggle whose pause unloads the models.
UIPlayToggleUnload ==
  /\ isPlaying \/ ~hasPrompt
  /\ isPlaying' = ~isPlaying
  /\ IF isPlaying /\ HasFreeSlot
     THEN DisposeStart(FreeSlot)
     ELSE UNCHANGED <<engine, bufferPool, evaluated, calls, history>>
  /\ UNCHANGED <<hasPrompt, modelsLoaded, hashFresh>>

\* SimpleWorkspace.tsx:514-518, 545-547: Play pauses, or starts playing with
\* no prompt text: only the flag changes.
UIPlayToggle ==
  /\ isPlaying \/ ~hasPrompt
  /\ isPlaying' = ~isPlaying
  /\ UNCHANGED <<engine, bufferPool, evaluated, calls, history, hasPrompt, modelsLoaded,
                 hashFresh>>

\* SimpleWorkspace.tsx:524-528, 541-544: loadModel answered success: the flag
\* is set and generateImage is called.
UIPlayLoaded(s) ==
  /\ calls[s].kind = "load" /\ calls[s].pc = "done" /\ calls[s].res.success
  /\ modelsLoaded' = TRUE
  /\ \E tokOk \in BOOLEAN :
       /\ calls' = Started(s, GenerateEnter(UIConfig, tokOk))
       /\ lastDispose' = "none"
  /\ UNCHANGED <<engine, bufferPool, evaluated, nLoads, lastLoad, isPlaying, hasPrompt,
                 hashFresh>>

\* SimpleWorkspace.tsx:528-532: loadModel answered failure: playing stops.
UIPlayLoadFailed(s) ==
  /\ calls[s].kind = "load" /\ calls[s].pc = "done" /\ ~calls[s].res.success
  /\ isPlaying' = FALSE
  /\ calls' = [calls EXCEPT ![s] = Idle]
  /\ UNCHANGED <<engine, bufferPool, evaluated, history, hasPrompt, modelsLoaded, hashFresh>>

\* SimpleWorkspace.tsx:380-468: a run of animate that finds the state hash
\* changed (or never recorded) while playing calls generateImage and records
\* the hash.
UITickGenerate ==
  /\ isPlaying /\ ~hashFresh /\ hasPrompt /\ HasFreeSlot
  /\ hashFresh' = TRUE
  /\ UIGenerateImage(FreeSlot)
  /\ UNCHANGED <<isPlaying, hasPrompt, modelsLoaded>>

\* SimpleWorkspace.tsx:141-145, 460-467: with no prompt text generateImage
\* returns at once; the hash is recorded all the same.
UITickIdle ==
  /\ isPlaying /\ ~hashFresh /\ ~hasPrompt
  /\ hashFresh' = TRUE
  /\ UNCHANGED <<engine, bufferPool, evaluated, calls, history, isPlaying, hasPrompt,
                 modelsLoaded>>

\* SimpleWorkspace.tsx:186-262, 305-322: generateImage resumes with the
\* result; a successful RGBA result marks the models as loaded.
UIGenerated(s) ==
  /\ calls[s].kind = "generate" /\ calls[s].pc = "done"
  /\ modelsLoaded' = (calls[s].res.success \/ modelsLoaded)
  /\ calls' = [calls EXCEPT ![s] = Idle]
  /\ UNCHANGED <<engine, bufferPool, evaluated, history, isPlaying, hasPrompt, hashFresh>>

\* SimpleWorkspace.tsx:550-563: Stop ends playing and invokes disposeModel.
UIStop ==
  /\ HasFreeSlot
  /\ isPlaying' = FALSE
  /\ DisposeStart(FreeSlot)
  /\ UNCHANGED <<hasPrompt, modelsLoaded, hashFresh>>

\* SimpleWorkspace.tsx:563-566: disposeModel answered; the flag is cleared
\* whatever the answer.
UIStopped(s) ==
  /\ calls[s].kind = "dispose" /\ calls[s].pc = "done"
  /\ modelsLoaded' = FALSE
  /\ calls' = [calls EXCEPT ![s] = Idle]
  /\ UNCHANGED <<engine, bufferPool, evaluated, history, isPlaying, hasPrompt, hashFresh>>

UINext ==
  \/ UIChange \/ UIPlayLoad \/ UIPlayGenerate \/ UIPlayToggle
  \/ UITickGenerate \/ UITickIdle \/ UIStop
  \/ \E s \in Slots : UIPlayLoaded(s) \/ UIPlayLoadFailed(s) \/ UIGenerated(s)
                      \/ UIStopped(s)
  \/ Handlers

SpecUI == Init /\ [][UINext]_vars

\* ------------------------------------------- requests on an unloaded engine
\* Placeholder runs: no load is ever requested, so every request is answered
\* by the placeholder generation; two seeds at each of two byte lengths.
FallbackConfigs ==
  [prompt : {GoodPrompt}, dims : {<<8, 8>>, <<4, 8>>}, seed : {42, 0}, steps : {1}]

FallbackNext ==
  \/ ApiGenerate(FallbackConfigs)
  \/ \E s \in Slots : GenerateFallback(s)
  \/ \E s \in Slots : ApiReceive(s)

SpecFallback == Init /\ [][FallbackNext]_vars

\* ----------------------------------------------------------- the helpers
\* The helper functions of main.js are evaluated on their own: an evaluation
\* appends to the log what the helper was applied to and what it returned.
Rest == <<engine, bufferPool, calls, history, ui>>

\* ------------------------------------------------------------ tokenizers
\* main.js:148, 300: new Int32Array(77).
MaxTokens == 77
\* Texts are a unit repeated up to MaxRepeat times.
MaxRepeat == 80

\* A missing key of the vocabulary object reads as undefined.
Undefined == -1
\* JavaScript's a || b on ids: b when a is undefined or 0.
Or(a, b) == IF a # Undefined /\ a # 0 THEN a ELSE b

\* text.toLowerCase()
toLowerCase(t) == [i \in 1..Len(t) |-> IF t[i] = "A" THEN "a" ELSE t[i]]
\* The classes of the regular expressions: [.,!?;:], \s and \w.
IsPunct(ch) == ch \in {".", ",", "!", "?", ";", ":"}
IsSpace(ch) == ch = " "
IsWordChar(ch) == ch \in {"a", "z", "A", "_"}

\* main.js:143: .replace(/([.,!?;:])/g, ' $1 '): every character is replaced
\* on its own, so the text is rewritten half by half.
RECURSIVE SpacePunct(_)
SpacePunct(t) ==
  IF t = <<>> THEN <<>>
  ELSE IF Len(t) = 1
  THEN (IF IsPunct(t[1]) THEN <<" ", t[1], " ">> ELSE t)
  ELSE SpacePunct(SubSeq(t, 1, Len(t) \div 2))
       \o SpacePunct(SubSeq(t, (Len(t) \div 2) + 1, Len(t)))

\* main.js:299: .replace(/[^\w\s]/g, ''): the characters that stay, in order.
StripNonWord(t) == SelectSeq(t, LAMBDA ch : IsWordChar(ch) \/ IsSpace(ch))

\* .split(/\s+/).filter(w => w.length > 0): the words of t, word being the
\* word read so far.  The text is split half by half; a word that runs over
\* the middle is carried into the second half.
RECURSIVE SplitWords(_, _)
SplitWords(t, word) ==
  IF t = <<>> THEN (IF word = <<>> THEN <<>> ELSE <<word>>)
  ELSE IF Len(t) = 1
  THEN (IF IsSpace(t[1]) THEN (IF word = <<>> THEN <<>> ELSE <<word>>)
        ELSE <<Append(word, t[1])>>)
  ELSE LET m == Len(t) \div 2
           left == SplitWords(SubSeq(t, 1, m), word)
           right == SubSeq(t, m + 1, Len(t))
       IN IF IsSpace(t[m]) THEN left \o SplitWords(right, <<>>)
          ELSE SubSeq(left, 1, Len(left) - 1) \o SplitWords(right, left[Len(left)])

\* An id array under construction: ids (position i of the array is ids[i+1]),
\* the running index idx, and the indexes written so far.
NewIds == [ids |-> [i \in 1..MaxTokens |-> 0], idx |-> 0, writes |-> {}]
\* ids[idx++] = v; a typed array ignores a write past its end.
Write(st, v) ==
  [ids |-> IF st.idx + 1 \in DOMAIN st.ids
           THEN [st.ids EXCEPT ![st.idx + 1] = v] ELSE st.ids,
   idx |-> st.idx + 1,
   writes |-> st.writes \cup {st.idx}]
\* main.js:182-184, 318-320: for (let i = idx; i < 77; i++) ids[i] = v
Pad(st, v) ==
  [st EXCEPT !.ids = [i \in DOMAIN st.ids |-> IF i - 1 >= st.idx THEN v ELSE st.ids[i]],
             !.writes = @ \cup (st.idx .. (MaxTokens - 1))]

\* vocab.json: a vocabulary with the special tokens, one without them, and
\* one that assigns id 0 to a word that also has an entry with the suffix.
Key(s) == <<s>>
VocabFull ==
  Key("<|startoftext|>") :> 49406 @@ Key("<|endoftext|>") :> 49407
  @@ <<"a", "</w>">> :> 320 @@ Key(".") :> 269 @@ Key("<unk>") :> 1
VocabBare == <<"a", "</w>">> :> 320
VocabZero ==
  Key("<|startoftext|>") :> 49406 @@ Key("<|endoftext|>") :> 49407
  @@ Key("z") :> 0 @@ <<"z", "</w>">> :> 538 @@ Key("a") :> 64
Vocabs == {VocabFull, VocabBare, VocabZero}
\* encoder[key]
Get(encoder, key) == IF key \in DOMAIN encoder THEN encoder[key] ELSE Undefined

\* A word loop that stops only at the end of the array.
ClipBreakLate(idx) == idx >= 77

\* main.js:156, 167: if (idx >= 75) break
ClipBreak(idx) == idx >= 75

\* main.js:166-170: the character-level encoding of a word.
RECURSIVE ClipChars(_, _, _)
ClipChars(st, encoder, chars) ==
  IF chars = <<>> \/ ClipBreak(st.idx) THEN st
  ELSE ClipChars(Write(st, Or(Or(Get(encoder, Key(Head(chars))),
                                 Get(encoder, Key("<unk>"))), 0)),
                 encoder, Tail(chars))

\* main.js:155-174: for (const word of words)
RECURSIVE ClipWords(_, _, _)
ClipWords(st, encoder, words) ==
  IF words = <<>> \/ ClipBreak(st.idx) THEN st
  ELSE LET word == Head(words)
           tokenId == Or(Get(encoder, word), Get(encoder, Append(word, "</w>")))
       IN ClipWords(IF Or(tokenId, 0) = 0 THEN ClipChars(st, encoder, word)
                    ELSE Write(st, tokenId),
                    encoder, Tail(words))

\* main.js:140-188: encode of createCLIPTokenizer(vocab, merges).
ClipEncode(encoder, text) ==
  LET words == SplitWords(SpacePunct(toLowerCase(text)), <<>>)
      started == Write(NewIds, Or(Get(encoder, Key("<|startoftext|>")), 49406))
      filled == ClipWords(started, encoder, words)
      ended == IF filled.idx < 77
               THEN Write(filled, Or(Get(encoder, Key("<|endoftext|>")), 49407))
               ELSE filled
  IN Pad(ended, Or(Get(encoder, Key("<|endoftext|>")), 49407))

\* The word loop of the hash tokenizer without its break.
HashBreakNever(idx) == idx < 0

\* main.js:308: if (idx >= 76) break
HashBreak(idx) == idx >= 76

\* main.js:310: the sum of the word's character codes.
RECURSIVE WordHash(_)
WordHash(word) == IF word = <<>> THEN 0 ELSE CharCode(Head(word)) + WordHash(Tail(word))

\* main.js:307-312: for (const word of words)
RECURSIVE HashWords(_, _)
HashWords(st, words) ==
  IF words = <<>> \/ HashBreak(st.idx) THEN st
  ELSE HashWords(Write(st, 49407 + (WordHash(Head(words)) % 93)), Tail(words))

\* main.js:297-324: encode of the fallback tokenizer.
HashEncode(text) ==
  LET words == SplitWords(StripNonWord(toLowerCase(text)), <<>>)
      started == Write(NewIds, 49406)
      filled == HashWords(started, words)
      ended == Write(filled, 49407)
  IN Pad(ended, 0)

\* main.js:391: tokenizer.encode(prompt) of the tokenizer the load installed.
encode(variant, encoder, text) ==
  IF variant = "clip" THEN ClipEncode(encoder, text) ELSE HashEncode(text)

\* The texts: a long word, known words, unknown words of one and of three
\* characters, capitals with punctuation, blanks.
Repeat(unit, n) == [i \in 1..(n * Len(unit)) |-> unit[((i - 1) % Len(unit)) + 1]]
TextUnits == {<<"a">>, <<"a", " ">>, <<"z", " ">>, <<"z", "z", "z", " ">>,
              <<"A", ".">>, <<" ">>}
Texts == {Repeat(unit, n) : unit \in TextUnits, n \in 1..MaxRepeat}

\* One evaluation of tokenizer.encode.
TokenizerEncode ==
  /\ evaluated = <<>>
  /\ \E variant \in {"clip", "hash"}, encoder \in Vocabs, text \in Texts :
       /\ variant = "hash" => encoder = VocabBare
       /\ evaluated' = <<[fn |-> "encode", variant |-> variant,
                          encoder |-> encoder, text |-> text,
                          out |-> encode(variant, encoder, text)]>>
  /\ UNCHANGED Rest

SpecTokenizer == Init /\ [][TokenizerEncode]_vars

\* ------------------------------------------------------- noise generator
\* createNoiseLatent evaluations per behaviour.
MaxNoiseCalls == 3

\* main.js:120: the multiplier and the increment of the recurrence.
LcgA == 1664525
LcgC == 1013904223
\* The modulus 4294967296 is Half * Half.
Half == 65536

\* The generator state s: a JavaScript number that is an integer of magnitude
\* below 2^32, as its sign and the two 16-bit halves of its magnitude.  In
\* this range s * 1664525 + 1013904223 stays below 2^53, so the double
\* arithmetic of the code is exact and is computed here on the halves.
Num(n) ==
  LET m == IF n < 0 THEN -n ELSE n
  IN [neg |-> n < 0, hi |-> m \div Half, lo |-> m % Half]

\* (m * 1664525 + c) mod 4294967296 for a magnitude m and 0 <= c < 2^31.
MulAdd(m, c) ==
  LET low == m.lo * (LcgA % Half) + (c % Half)
      high == m.hi * (LcgA % Half) + m.lo * (LcgA \div Half) + (c \div Half)
              + (low \div Half)
  IN [neg |-> FALSE, hi |-> high % Half, lo |-> low % Half]

\* main.js:120: s = (s * 1664525 + 1013904223) % 4294967296, where % takes
\* the sign of the dividend.
Lcg(s) ==
  IF ~s.neg THEN MulAdd(s, LcgC)
  ELSE IF s.hi = 0 /\ s.lo <= (LcgC \div LcgA) THEN Num(LcgC - s.lo * LcgA)
  ELSE LET p == MulAdd(s, 0)
           low == p.lo - (LcgC % Half)
           high == p.hi - (LcgC \div Half) - (IF low < 0 THEN 1 ELSE 0)
       IN [neg |-> (high % Half) # 0 \/ (low % Half) # 0,
           hi |-> high % Half, lo |-> low % Half]

\* The generator seeded with the state the previous evaluation left behind.
seedRandomShared(seed) ==
  IF evaluated = <<>> THEN Num(seed) ELSE evaluated[Len(evaluated)].out.s

\* main.js:117-118: let s = seed, private to the generator returned.
seedRandom(seed) == Num(seed)

\* main.js:109-111: n draws of generator(); the value stored is
\* s / 4294967296 * 2 - 1 and is kept here as the state s it is computed from.
RECURSIVE Draw(_, _)
Draw(s, n) == IF n <= 0 THEN <<>> ELSE <<Lcg(s)>> \o Draw(Lcg(s), n - 1)

\* main.js:99-114
createNoiseLatent(height, width, seed) ==
  LET latentHeight == height \div 8
      latentWidth == width \div 8
      channels == 4
      noise == Draw(seedRandom(seed), 1 * channels * latentHeight * latentWidth)
  IN [dims |-> <<1, channels, latentHeight, latentWidth>>,
      data |-> noise,
      s |-> IF noise = <<>> THEN seedRandom(seed) ELSE noise[Len(noise)]]

\* The seeds: the default, zero, and the two ends the seed effect reaches
\* below zero (SimpleWorkspace.tsx:397: baseSeed + round(effectValue * 1000)).
Seeds == {42, 0, -1, -958}
\* width and height of the requests.
NoiseDims == {<<8, 8>>, <<16, 8>>}

\* main.js:435: one evaluation of createNoiseLatent(height, width, seed).
NoiseCall ==
  /\ Len(evaluated) < MaxNoiseCalls
  /\ \E seed \in Seeds, d \in NoiseDims :
       evaluated' = Append(evaluated,
         [fn |-> "createNoiseLatent", height |-> d[2], width |-> d[1],
          seed |-> seed, out |-> createNoiseLatent(d[2], d[1], seed)])
  /\ UNCHANGED Rest

SpecNoise == Init /\ [][NoiseCall]_vars

\* ------------------------------------------------- pixel buffers, by byte
\* JavaScript's a % m: the remainder takes the sign of a.
JsRem(a, m) == IF a >= 0 THEN a % m ELSE -((-a) % m)
\* Math.max(0, Math.min(255, v))
Clamp(v) == IF v < 0 THEN 0 ELSE IF v > 255 THEN 255 ELSE v
\* The store of an integer into a Uint8Array element.
Store8(v) == v % 256
\* new Uint8Array(n): n zero bytes, at indexes 0..n-1.
NewBuffer(n) == [i \in 0..(n - 1) |-> 0]

\* The pixel loops with the inner loop one column short.
FilledPixelsShort(width, height) ==
  {y * width + x : y \in 0..(height - 1), x \in 0..(width - 2)}

\* main.js:644-646 and 573-576: the pixels the two nested loops visit,
\* for (y < height) for (x < width), each at index y * width + x.
FilledPixels(width, height) ==
  {y * width + x : y \in 0..(height - 1), x \in 0..(width - 1)}

\* A pixel without the corner and border markers.
FallbackPixelUnmarked(img, x, y) == <<51, 51, 51, 255>>

\* main.js:640-701: the four bytes of pixel (x, y) of the placeholder image
\* img = <<seed, promptHash, width, height>>.  Hues are kept exactly, in
\* units of 1/D degree with D = 1000 * (width + height); colour levels are
\* kept in tenths (c) and as the floor of (level + 0.2) * 255.
FallbackPixel(img, x, y) ==
  LET seed == img[1]
      promptHash == img[2]
      width == img[3]
      height == img[4]
      D == 1000 * (width + height)
      hue1 == JsRem(seed * 137508, 360000)
      hue2 == JsRem(seed * 237508, 360000)
      hue == hue1 * (width + height) + (hue2 - hue1) * (x + y)
      checker == JsRem((x \div 32) + (y \div 32), 2)
      c == 8 + 3 * checker
      h == JsRem(hue + promptHash * D, 360 * D)
      hm == JsRem(h, 120 * D)
      q == 60 * D - (IF hm - 60 * D < 0 THEN 60 * D - hm ELSE hm - 60 * D)
      cLevel == ((c + 2) * 255) \div 10
      xLevel == ((17 * c * q) \div (40 * D)) + 51
      zLevel == 51
      rgb == IF h < 60 * D THEN <<cLevel, xLevel, zLevel>>
             ELSE IF h < 120 * D THEN <<xLevel, cLevel, zLevel>>
             ELSE IF h < 180 * D THEN <<zLevel, cLevel, xLevel>>
             ELSE IF h < 240 * D THEN <<zLevel, xLevel, cLevel>>
             ELSE IF h < 300 * D THEN <<xLevel, zLevel, cLevel>>
             ELSE <<cLevel, zLevel, xLevel>>
      borderSize == 8
      isBorder == \/ x < borderSize \/ x >= width - borderSize
                  \/ y < borderSize \/ y >= height - borderSize
      isCorner == \/ (x < borderSize * 2 /\ y < borderSize * 2)
                  \/ (x >= width - borderSize * 2 /\ y < borderSize * 2)
                  \/ (x < borderSize * 2 /\ y >= height - borderSize * 2)
                  \/ (x >= width - borderSize * 2 /\ y >= height - borderSize * 2)
  IN IF isCorner THEN <<255, 0, 0, 255>>
     ELSE IF isBorder THEN <<255, 255, 255, 255>>
     ELSE <<Store8(Clamp(rgb[1])), Store8(Clamp(rgb[2])), Store8(Clamp(rgb[3])), 255>>

\* A fill that leaves the last pixel of the buffer as it was when the seed
\* is 0.
FallbackFillSparse(imageBuffer, img) ==
  LET width == img[3]
      height == img[4]
      filled == FilledPixels(width, height)
                  \ (IF img[1] = 0 THEN {width * height - 1} ELSE {})
  IN [bytes |-> [i \in DOMAIN imageBuffer |->
                   IF (i \div 4) \in filled
                   THEN FallbackPixel(img, (i \div 4) % width, (i \div 4) \div width)[(i % 4) + 1]
                   ELSE imageBuffer[i]],
      written |-> filled]

\* main.js:634-703: the pooled buffer after the fill for img, and the pixels
\* the fill wrote.
FallbackFill(imageBuffer, img) ==
  LET width == img[3]
      height == img[4]
      filled == FilledPixels(width, height)
  IN [bytes |-> [i \in DOMAIN imageBuffer |->
                   IF (i \div 4) \in filled
                   THEN FallbackPixel(img, (i \div 4) % width, (i \div 4) \div width)[(i % 4) + 1]
                   ELSE imageBuffer[i]],
      written |-> filled]

\* main.js:584: Math.max(0, Math.min(255, Math.floor((v + 1) * 127.5))) for a
\* decoded value v given in eighths, where (v + 1) * 127.5 is computed
\* exactly by the doubles of the code.
Denormalize(v) == Clamp(((v + 8) * 1275) \div 80)

\* main.js:569-589: the decoded tensor (channel-major, rgbData[i] is
\* rgbData[i + 1] here) converted to interleaved RGBA; a read past the end of
\* rgbData gives NaN, stored as 0.
ConvertToRGBA(finalWidth, finalHeight, rgbData) ==
  LET pixelCount == finalWidth * finalHeight
      imageBuffer == NewBuffer(pixelCount * 4)
      filled == FilledPixels(finalWidth, finalHeight)
      Channel(i) == IF i + 1 \in DOMAIN rgbData THEN Store8(Denormalize(rgbData[i + 1]))
                    ELSE 0
  IN [bytes |-> [i \in DOMAIN imageBuffer |->
                   IF (i \div 4) \in filled
                   THEN (IF i % 4 = 3 THEN 255
                         ELSE Channel((i % 4) * finalHeight * finalWidth + (i \div 4)))
                   ELSE imageBuffer[i]],
      written |-> filled]

\* Decoded values, in eighths: -2, -1, 0, 1, 2.
DecodedValues == {-16, -8, 0, 8, 16}
\* Decoder outputs: one pixel with every combination of values, two pixels
\* with the values of the nominal range.
DecodedTensors ==
  [width : {1}, height : {1}, data : [1..3 -> DecodedValues]]
  \cup [width : {2}, height : {1}, data : [1..6 -> {-8, 0, 8}]]
\* Placeholder images: three seeds, two prompts, and sizes without and with
\* pixels inside the border, one of them at least 32 pixels in both axes.
FallbackImages ==
  {FallbackImage([prompt |-> p, dims |-> d, seed |-> seed, steps |-> 1]) :
     p \in {GoodPrompt, Str(<<"z", "a">>)},
     d \in {<<8, 8>>, <<4, 8>>, <<33, 17>>, <<40, 34>>},
     seed \in {42, 0, -958}}

\* main.js:634-703: one fill of a new pooled buffer.
PixelsFallback ==
  /\ evaluated = <<>>
  /\ \E img \in FallbackImages :
       evaluated' = <<[fn |-> "fallback", img |-> img,
                       out |-> FallbackFill(NewBuffer(img[3] * img[4] * 4), img)]>>
  /\ UNCHANGED Rest

\* The number of fills of one pooled buffer that are followed.
MaxFills == 3

\* main.js:88-96, 634-703: a further fill of the same byte length; getBuffer
\* hands out the buffer the previous fill of that length left in the pool,
\* with its content.
PixelsRefill ==
  /\ evaluated # <<>>
  /\ Len(evaluated) < MaxFills
  /\ evaluated[1].fn = "fallback"
  /\ \E img \in FallbackImages :
       LET last == evaluated[Len(evaluated)]
       IN /\ img[3] * img[4] = last.img[3] * last.img[4]
          /\ evaluated' = Append(evaluated,
                                 [fn |-> "fallback", img |-> img,
                                  out |-> FallbackFill(last.out.bytes, img)])
  /\ UNCHANGED Rest

\* main.js:569-589: one conversion of a decoder output.
PixelsConvert ==
  /\ evaluated = <<>>
  /\ \E t \in DecodedTensors :
       evaluated' = <<[fn |-> "rgba", decoded |-> t,
                       out |-> ConvertToRGBA(t.width, t.height, t.data)]>>
  /\ UNCHANGED Rest

PixelsNext == PixelsFallback \/ PixelsRefill \/ PixelsConvert

SpecPixels == Init /\ [][PixelsNext]_vars

\* ------------------------------------------------------- latent to decoder
\* main.js:488, 492-494: latentData[i] / 0.13025, kept exactly as the
\* numerator of a fraction over 521 (1 / 0.13025 = 4000 / 521).
VaeScale(v) == v * 4000

\* main.js:486-496: the rescaled latent, a tensor of the same dims.  Tensor
\* data is a sequence; element i of the code's array is data[i + 1].
Rescale(latent) ==
  [dims |-> latent.dims,
   data |-> [i \in DOMAIN latent.data |-> VaeScale(latent.data[i])]]

\* A reduction that takes the first three values of every pixel, as for an
\* interleaved layout.
ReduceChannelsInterleaved(t) ==
  IF t.dims[2] = 4
  THEN LET n == t.dims[1] * 3 * t.dims[3] * t.dims[4]
       IN [dims |-> <<t.dims[1], 3, t.dims[3], t.dims[4]>>,
           data |-> [k \in 1..n |-> t.data[((k - 1) \div 3) * 4 + ((k - 1) % 3) + 1]]]
  ELSE t

\* main.js:498-516: a tensor of 4 channels is replaced by one of 3 channels
\* whose first 3 * h * w elements are copied from it; the test reads the
\* latent's channel count only.
ReduceChannels(t) ==
  IF t.dims[2] = 4
  THEN LET batch == t.dims[1]
           h == t.dims[3]
           w == t.dims[4]
           newChannels == 3
           copied == {c * h * w + i : c \in 0..(newChannels - 1), i \in 0..(h * w - 1)}
       IN [dims |-> <<batch, newChannels, h, w>>,
           data |-> [k \in 1..(batch * newChannels * h * w) |->
                       IF (k - 1) \in copied THEN t.data[k] ELSE 0]]
  ELSE t

\* main.js:486-516: the tensor handed to the decoder for a denoiser output.
VaeInput(latent) == ReduceChannels(Rescale(latent))

\* Denoiser outputs of 3 and 4 channels, of 1x2 and 2x1 latent pixels.
Latents ==
  UNION {[dims : {<<1, c, hw[1], hw[2]>>}, data : [1..(c * 2) -> {0, 1}]] :
           c \in {3, 4}, hw \in {<<1, 2>>, <<2, 1>>}}

\* main.js:486-531: one preparation of the decoder's input, for a decoder
\* whose input has `expects` channels; the code never reads that number.
LatentPrepare ==
  /\ evaluated = <<>>
  /\ \E latent \in Latents, expects \in {3, 4} :
       evaluated' = <<[fn |-> "vae", latent |-> latent, expects |-> expects,
                       scaled |-> Rescale(latent), out |-> VaeInput(latent)]>>
  /\ UNCHANGED Rest

SpecLatent == Init /\ [][LatentPrepare]_vars

\* ================================================================ claims
\* What the claims call a prompt that is missing or empty after trimming.
BlankPrompt(p) == ~p.defined \/ Trim(p.text) = <<>>
GenerateDone(s) == calls[s].kind = "generate" /\ calls[s].pc = "done"
DisposeDone(s) == calls[s].kind = "dispose" /\ calls[s].pc = "done"

\* C1: graceful degradation.  Every generate request with a prompt that is
\* non-empty after trimming and positive width and height returns
\* success:true with a pixel buffer, whether the models were not ready or a
\* tokenize, text-encode, denoise or decode stage failed; a failed stage
\* ends in the fallback image, never in success:false or an exception.
C1_GracefulDegradation ==
  \A s \in Slots :
    (GenerateDone(s) /\ ~BlankPrompt(calls[s].cfg.prompt)
       /\ calls[s].cfg.dims[1] > 0 /\ calls[s].cfg.dims[2] > 0)
    => /\ calls[s].res.success
       /\ calls[s].res.source \in {"model", "fallback"}
       /\ calls[s].res.bytes = calls[s].res.width * calls[s].res.height * 4
       /\ calls[s].failed # "none" => calls[s].res.source = "fallback"

\* A request that reached the decoder with loaded models, whose decode stage
\* failed, has returned.
C1_Witness ==
  \E s \in Slots : GenerateDone(s) /\ calls[s].failed = "vae"
                   /\ calls[s].ran = <<"te", "unet", "vae">>
                   /\ calls[s].res.success

\* C2: after a load has returned failure, and until a later load returns
\* success, the engine is not ready (so that every generate request takes
\* the fallback path and invokes no model handle), also when the failed load
\* follows an earlier successful one.
C2_NotReadyAfterFailedLoad == lastLoad = "failure" => ~IsReady

\* C3: after dispose returns, the three model handles and the tokenizer are
\* all cleared.
C3_DisposeClearsAll ==
  lastDispose = "success" =>
    /\ unetSession = 0 /\ textEncoderSession = 0 /\ vaeDecoderSession = 0
    /\ tokenizer = "null"

\* C4: dispose is idempotent.  In any engine state a dispose (run with no
\* other call beside it) returns success:true, and a dispose called right
\* after another dispose has returned answers without changing the state the
\* first one left.
C4_DisposeIdempotent ==
  [][\A s \in Slots :
       (calls[s].pc # "done" /\ calls'[s].kind = "dispose" /\ calls'[s].pc = "done"
          /\ calls'[s].alone)
       => /\ calls'[s].res.success
          /\ lastDispose # "none" => UNCHANGED <<engine, bufferPool>>]_vars

\* C5: dispose never raises to its caller.  In every engine state and for
\* every outcome of the releases, a rejected release included, the handler
\* ends by returning a result value.
C5_DisposeNeverThrows ==
  \A s \in Slots :
    DisposeDone(s) => calls[s].res.source \in {"dispose", "error"}

\* A dispose whose release was rejected has returned.
C5_Witness == \E s \in Slots : DisposeDone(s) /\ ~calls[s].res.success

\* C6: at most one generation is in flight at any time, under every schedule
\* of requests the UI can issue.
C6_SingleFlight == Cardinality(Busy("generate")) <= 1

\* C7: no dispose is releasing a model handle while a generation is in
\* flight.
C7_NoDisposeDuringGenerate == Busy("dispose") # {} => Busy("generate") = {}

\* C8: no generate request is issued or handled while a load is still in
\* progress.
C8_LoadBeforeGenerate == Busy("load") # {} => Busy("generate") = {}

\* C9: a generate request whose prompt is missing or empty after trimming
\* is answered success:false at once: no model handle is invoked, no buffer
\* is acquired, and handles, tokenizer and buffer pool stay as they were.
C9_BlankPromptRejected ==
  [][\A s \in Slots :
       (calls[s].kind # "generate" /\ calls'[s].kind = "generate"
          /\ BlankPrompt(calls'[s].cfg.prompt))
       => /\ calls'[s].pc = "done"
          /\ ~calls'[s].res.success /\ calls'[s].res.source = "error"
          /\ calls'[s].ran = <<>>
          /\ UNCHANGED <<engine, bufferPool>>]_vars

\* A whitespace-only prompt was rejected while the engine was ready.
C9_Witness ==
  \E s \in Slots : /\ GenerateDone(s) /\ calls[s].cfg.prompt = Str(<<" ">>)
                   /\ ~calls[s].res.success /\ calls[s].alone
                   /\ IsReady

\* C10: every request for which generate produces pixels has a width and a
\* height that are positive and divisible by 8.
C10_DimsValidated ==
  \A s \in Slots :
    (GenerateDone(s) /\ calls[s].res.success)
    => \A i \in {1, 2} : calls[s].cfg.dims[i] > 0 /\ calls[s].cfg.dims[i] % 8 = 0

\* C11: token length.  For every non-empty text and both tokenizer variants
\* encode returns exactly 77 ids: every position 0..76 is written and no
\* write falls outside them, also when the text has more words or characters
\* than fit.
C11_TokenLength ==
  \A i \in DOMAIN evaluated :
    evaluated[i].fn = "encode" =>
      /\ Len(evaluated[i].out.ids) = 77
      /\ evaluated[i].out.writes = 0..76

\* The hash tokenizer has encoded a text of more than 77 words.
C11_Witness ==
  \E i \in DOMAIN evaluated :
    /\ evaluated[i].fn = "encode" /\ evaluated[i].variant = "hash"
    /\ Len(SplitWords(evaluated[i].text, <<>>)) > 77
    /\ evaluated[i].out.idx = 77

C13_NoiseRange ==
  \A i \in DOMAIN evaluated :
    evaluated[i].fn = "createNoiseLatent" =>
      \A k \in DOMAIN evaluated[i].out.data :
        LET s == evaluated[i].out.data[k]
        IN ~s.neg /\ s.hi \in 0..(Half - 1) /\ s.lo \in 0..(Half - 1)

\* A placeholder generation in slot s has returned its image.
FallbackDone(s) == GenerateDone(s) /\ calls[s].res.source = "fallback"

\* C14: buffer pool.  The pool keeps one buffer per byte length, each of
\* exactly the length it is stored under; a buffer is created only by the
\* first acquire of its length, is a new buffer then, and every later
\* acquire of that length gets that same buffer to fill.
C14_BufferPool ==
  [][\A n \in Sizes :
       /\ bufferPool[n].present
            => bufferPool'[n].present /\ bufferPool'[n].id = bufferPool[n].id
       /\ bufferPool'[n].present => bufferPool'[n].length = n
       /\ (~bufferPool[n].present /\ bufferPool'[n].present)
            => \A m \in Sizes : bufferPool[m].present
                                  => bufferPool[m].id # bufferPool'[n].id
       /\ \A s \in Slots :
            (calls[s].pc = "delay" /\ calls'[s].pc = "done" /\ calls'[s].res.success
               /\ calls'[s].res.bytes = n)
            => bufferPool'[n].present /\ bufferPool'[n].holds = calls'[s].res.pixels]_vars

\* Two generations of the same byte length and different content have both
\* acquired the buffer of that length.
C14_Witness ==
  \E s, t \in Slots :
    /\ FallbackDone(s) /\ FallbackDone(t)
    /\ calls[s].res.bytes = calls[t].res.bytes
    /\ calls[s].res.pixels # calls[t].res.pixels
    /\ bufferPool[calls[s].res.bytes].id = 1
    /\ \A n \in Sizes : bufferPool[n].present

\* C15: copy-on-return.  The pixel data a placeholder generation returns has
\* storage of its own: what the caller reads in it stays the image of its
\* request, whatever later generations of the same byte length write.
C15_CopyOnReturn ==
  \A s \in Slots :
    FallbackDone(s) =>
      /\ calls[s].res.shares = 0
      /\ imageData(calls[s].res) = FallbackImage(calls[s].cfg)

\* A returned result whose byte length was since acquired and refilled by a
\* generation with other content.
C15_Witness ==
  \E s \in Slots :
    /\ FallbackDone(s)
    /\ bufferPool[calls[s].res.bytes].holds # calls[s].res.pixels
    /\ calls[s].alone

\* A model-path generation in slot s has returned its image.
ModelDone(s) == GenerateDone(s) /\ calls[s].res.source = "model"

\* C16: buffer size.  For every successful generate result, on the model
\* path and on the fallback path, the byte length of the returned pixel
\* buffer is metadata.width * metadata.height * 4.
C16_BufferSize ==
  \A s \in Slots :
    (GenerateDone(s) /\ calls[s].res.success)
    => calls[s].res.bytes = calls[s].res.width * calls[s].res.height * 4

\* A model-path result whose decoder output is larger than requested and a
\* fallback result have both been returned.
C16_Witness ==
  \E s, t \in Slots :
    /\ ModelDone(s) /\ calls[s].res.bytes > calls[s].cfg.dims[1] * calls[s].cfg.dims[2] * 4
    /\ FallbackDone(t) /\ calls[t].res.bytes > 0

\* C19: on the model path the result's width and height are those of the
\* decoder's output, never resized to the request, and the metadata reports
\* a size mismatch exactly when the decoder's width or height differs from
\* the requested one.
C19_SizeMismatchReported ==
  \A s \in Slots :
    ModelDone(s) =>
      /\ calls[s].res.width = calls[s].res.pixels[3]
      /\ calls[s].res.height = calls[s].res.pixels[4]
      /\ "note" \in calls[s].res.keys
      /\ calls[s].res.note = "differs"
           <=> (\/ calls[s].res.pixels[3] # calls[s].cfg.dims[1]
                \/ calls[s].res.pixels[4] # calls[s].cfg.dims[2])

\* A decoder output wider than requested has been returned with the
\* mismatch reported.
C19_Witness ==
  \E s \in Slots : /\ ModelDone(s) /\ calls[s].res.note = "differs"
                   /\ calls[s].res.width > calls[s].cfg.dims[1]

\* C20: a request answered while the engine is not ready returns a
\* successful result whose metadata tags it as fallback: it carries an entry
\* that the metadata of a model-path result does not have.
C20_FallbackTagged ==
  \A s \in Slots :
    (FallbackDone(s) /\ calls[s].failed = "none")
    => calls[s].res.keys \ ModelMetadataKeys # {}

RoundedByte(v) == Clamp(((v + 8) * 1275 + 40) \div 80)

\* C18: format conversion.  Each R, G and B byte of the model-path output is
\* clamp(round((v + 1) * 127.5), 0, 255) of the decoded value v of its pixel
\* and channel; a decoder output of all 0.0 gives bytes that are all 128.
C18_FormatConversion ==
  \A e \in DOMAIN evaluated :
    evaluated[e].fn = "rgba" =>
      LET t == evaluated[e].decoded
          out == evaluated[e].out
      IN \A p \in 0..(t.width * t.height - 1), k \in 0..2 :
           out.bytes[p * 4 + k] = RoundedByte(t.data[k * t.width * t.height + p + 1])

\* C21: fallback test pattern.  In a placeholder image of width and height at
\* least 32, every pixel within 16 pixels of a corner in both axes is opaque
\* red, and every other pixel within 8 pixels of an edge is opaque white,
\* whatever the seed and the prompt.
C21_FallbackPattern ==
  \A e \in DOMAIN evaluated :
    (evaluated[e].fn = "fallback" /\ evaluated[e].img[3] >= 32 /\ evaluated[e].img[4] >= 32)
    => LET width == evaluated[e].img[3]
           height == evaluated[e].img[4]
           bytes == evaluated[e].out.bytes
           px(x, y) == [k \in 1..4 |-> bytes[(y * width + x) * 4 + k - 1]]
       IN \A x \in 0..(width - 1), y \in 0..(height - 1) :
            IF (x < 16 \/ x >= width - 16) /\ (y < 16 \/ y >= height - 16)
            THEN px(x, y) = <<255, 0, 0, 255>>
            ELSE (x < 8 \/ x >= width - 8 \/ y < 8 \/ y >= height - 8)
                 => px(x, y) = <<255, 255, 255, 255>>

\* A 40x34 placeholder image with a red corner pixel, a white border pixel
\* between the corners and a pixel inside the border has been filled.
C21_Witness ==
  \E e \in DOMAIN evaluated :
    /\ evaluated[e].fn = "fallback"
    /\ evaluated[e].img[3] = 40 /\ evaluated[e].img[4] = 34
    /\ evaluated[e].out.bytes[1] = 0
    /\ evaluated[e].out.bytes[(4 * 40 + 20) * 4 + 1] = 255
    /\ evaluated[e].out.bytes[(17 * 40 + 20) * 4 + 2] = 51

C23_TokenizerFallback ==
  [][\A s \in Slots :
       (/\ calls[s].kind = "load" /\ calls[s].pc = "vae" /\ calls'[s].pc = "done"
        /\ vaeDecoderSession' = calls[s].h
        /\ unetSession' # 0 /\ textEncoderSession' # 0)
       => /\ calls'[s].res.success
          /\ lastLoad' = "success"
          /\ tokenizer' \in {"clip", "hash"}]_vars

\* A load has returned success and left the hash tokenizer installed next to
\* its three models.
C23_Witness ==
  \E s \in Slots :
    /\ calls[s].kind = "load" /\ calls[s].pc = "done" /\ calls[s].res.success
    /\ tokenizer = "hash"
    /\ unetSession = calls[s].h /\ textEncoderSession = calls[s].h
    /\ vaeDecoderSession = calls[s].h

\* A step in which a dispose request is issued.
DisposeIssued == \E s \in Slots : calls[s].kind # "dispose" /\ calls'[s].kind = "dispose"

\* C24: Stop alone unloads.  In the UI a dispose request is issued only by a
\* Stop step; a step of Play, whether it pauses, starts a load or starts a
\* generation, issues no dispose and leaves the loaded models as they were.
C24_StopAloneUnloads ==
  [][/\ DisposeIssued => UIStop
     /\ (UIPlayToggle \/ UIPlayLoad \/ UIPlayGenerate)
        => (~DisposeIssued /\ UNCHANGED engine)]_vars

\* Play has been paused with the models loaded: nothing is playing, no
\* request is in flight, and the three models and the tokenizer are in place.
C24_Witness ==
  /\ ~isPlaying /\ modelsLoaded /\ IsReady
  /\ \A s \in Slots : calls[s].kind = "idle"
  /\ lastLoad = "success"

\* C25: load attempts every model.  A load returns failure because of a
\* rejected construction only once the last of the three constructions, the
\* VAE decoder's, has been attempted: a construction is not skipped because an
\* earlier one failed.
C25_LoadAttemptsAll ==
  [][\A s \in Slots :
       (/\ calls[s].kind = "load" /\ calls[s].pc \in Kinds
        /\ calls'[s].pc = "done" /\ ~calls'[s].res.success)
       => calls[s].pc = "vae"]_vars

\* C26: failed load leaves nothing loaded.  When a load has returned failure,
\* no session variable holds a handle that this load constructed.
C26_FailedLoadReleases ==
  \A s \in Slots :
    (calls[s].kind = "load" /\ calls[s].pc = "done" /\ ~calls[s].res.success)
    => /\ unetSession # calls[s].h
       /\ textEncoderSession # calls[s].h
       /\ vaeDecoderSession # calls[s].h

\* C27: best-effort dispose.  When a dispose that ran with no other call
\* beside it has returned, with success or after a release was rejected, the
\* three session variables are null.
C27_BestEffortDispose ==
  lastDispose \in {"success", "failure"}
  => unetSession = 0 /\ textEncoderSession = 0 /\ vaeDecoderSession = 0

\* C28: model-set atomicity.  The sessions a generation runs its stages on,
\* text encoder, denoiser and decoder, were all constructed by the same load,
\* under every interleaving of load, dispose and generate.
C28_ModelSetAtomic ==
  \A s \in Slots :
    calls[s].kind = "generate"
    => \A i, j \in DOMAIN calls[s].used : calls[s].used[i] = calls[s].used[j]

\* C29: pipeline ordering.  Within one generation the stages are invoked in
\* the order text encoder, denoiser, decoder, one per step of the handler,
\* each only when the stage before it has returned successfully; once a
\* stage has failed no further stage is invoked and the request goes
\* straight to the fallback path.
C29_PipelineOrdering ==
  [][\A s \in Slots :
       calls'[s].kind = "generate" =>
         /\ calls'[s].ran # calls[s].ran =>
              /\ calls'[s].ran \in {<<"te">>, <<"te", "unet">>, <<"te", "unet", "vae">>}
              /\ calls'[s].failed = "none"
              /\ Len(calls'[s].ran) = Len(calls[s].ran) + 1
              /\ Len(calls'[s].ran) > 1 =>
                   /\ calls[s].kind = "generate"
                   /\ calls[s].pc = calls[s].ran[Len(calls[s].ran)]
                   /\ calls[s].failed = "none"
         /\ (calls'[s].failed # "none" /\ calls[s].failed = "none") =>
              calls'[s].pc = "delay"
         /\ (calls[s].kind = "generate" /\ calls[s].failed # "none") =>
              /\ calls'[s].ran = calls[s].ran
              /\ calls'[s].pc \in {"delay", "done"}]_vars

\* A request whose denoiser failed has returned the placeholder image, its
\* decoder never invoked.
C29_Witness ==
  \E s \in Slots :
    /\ GenerateDone(s) /\ calls[s].failed = "unet"
    /\ calls[s].ran = <<"te", "unet">>
    /\ calls[s].res.source = "fallback"

\* C30: single-pass denoising.  Whatever number of steps a request asks for,
\* it invokes each of text encoder, denoiser and decoder at most once, and a
\* request answered from the models has invoked each exactly once.
C30_SinglePass ==
  \A s \in Slots :
    calls[s].kind = "generate" =>
      /\ \A k \in Kinds :
           Cardinality({i \in DOMAIN calls[s].ran : calls[s].ran[i] = k}) <= 1
      /\ calls[s].res.source = "model" => calls[s].ran = <<"te", "unet", "vae">>

\* A request for four steps has been answered from the models after one
\* denoiser call.
C30_Witness ==
  \E s \in Slots :
    /\ GenerateDone(s) /\ calls[s].cfg.steps = 4
    /\ calls[s].res.source = "model"
    /\ calls[s].ran = <<"te", "unet", "vae">>

\* C31: conditional channel reduction.  A 4-channel latent is reduced to 3
\* channels only when the decoder expects 3 channels; when the decoder
\* expects 4 channels the decoder is given the rescaled latent with all 4.
C31_ReductionConditional ==
  \A e \in DOMAIN evaluated :
    (evaluated[e].fn = "vae" /\ evaluated[e].latent.dims[2] = 4)
    => /\ evaluated[e].out.dims[2] = 3 => evaluated[e].expects = 3
       /\ evaluated[e].expects = 4 => evaluated[e].out = evaluated[e].scaled

\* C32: channel reconciliation content.  For a latent of shape [1,4,h,w] the
\* tensor given to the decoder has shape [1,3,h,w], and its element (c,y,x)
\* is the element (c,y,x) of the tensor the reconciliation step received,
\* for c in 0..2, in channel-major order and with the value unchanged.
C32_ReconciliationContent ==
  \A e \in DOMAIN evaluated :
    (evaluated[e].fn = "vae" /\ evaluated[e].latent.dims[2] = 4)
    => LET in == evaluated[e].scaled
           out == evaluated[e].out
           h == in.dims[3]
           w == in.dims[4]
       IN /\ out.dims = <<1, 3, h, w>>
          /\ Len(out.data) = 3 * h * w
          /\ \A c \in 0..2, y \in 0..(h - 1), x \in 0..(w - 1) :
               out.data[c * h * w + y * w + x + 1] = in.data[c * h * w + y * w + x + 1]

\* A 4-channel latent whose channels differ from one another has been
\* reduced.
C32_Witness ==
  \E e \in DOMAIN evaluated :
    /\ evaluated[e].fn = "vae"
    /\ evaluated[e].latent.dims = <<1, 4, 1, 2>>
    /\ evaluated[e].latent.data = <<1, 0, 0, 1, 1, 1, 0, 0>>
    /\ evaluated[e].out.data = <<4000, 0, 0, 4000, 4000, 4000>>

\* The ids a word stands for when a vocabulary key is looked up by presence:
\* the word's own id, else the id of word+suffix, else one id per character.
WordIds(encoder, word) ==
  IF word \in DOMAIN encoder THEN <<encoder[word]>>
  ELSE IF Append(word, "</w>") \in DOMAIN encoder THEN <<encoder[Append(word, "</w>")]>>
  ELSE [i \in 1..Len(word) |->
          Or(Or(Get(encoder, Key(word[i])), Get(encoder, Key("<unk>"))), 0)]
RECURSIVE PromptIds(_, _)
PromptIds(encoder, words) ==
  IF words = <<>> THEN <<>>
  ELSE IF Len(words) = 1 THEN WordIds(encoder, words[1])
  ELSE PromptIds(encoder, SubSeq(words, 1, Len(words) \div 2))
       \o PromptIds(encoder, SubSeq(words, (Len(words) \div 2) + 1, Len(words)))
\* The words of a text and the ids that stand for them, in prompt order.
TextIds(encoder, text) ==
  PromptIds(encoder, SplitWords(SpacePunct(toLowerCase(text)), <<>>))
\* The ids of the special tokens: the vocabulary's, else the CLIP defaults.
StartId(encoder) == Or(Get(encoder, Key("<|startoftext|>")), 49406)
EndId(encoder) == Or(Get(encoder, Key("<|endoftext|>")), 49407)
\* The number of word and character ids that fit: positions 1 to 74.
Kept(flat) == IF Len(flat) < 74 THEN Len(flat) ELSE 74

\* C33: vocabulary-backed token layout.  Position 0 holds the start-of-text
\* id, the word and character ids follow in prompt order (compared where the
\* vocabulary assigns no id 0), the end-of-text id is in the next free slot,
\* and every later position up to 76 holds the pad id, which is the
\* end-of-text id; so the output always contains an end-of-text id.
C33_ClipLayout ==
  \A e \in DOMAIN evaluated :
    (evaluated[e].fn = "encode" /\ evaluated[e].variant = "clip")
    => LET encoder == evaluated[e].encoder
           ids == evaluated[e].out.ids
           flat == TextIds(encoder, evaluated[e].text)
           n == CHOOSE k \in 1..MaxTokens :
                  /\ k = MaxTokens \/ ids[k + 1] = EndId(encoder)
                  /\ \A j \in 1..(k - 1) : ids[j + 1] # EndId(encoder)
       IN /\ Len(ids) = MaxTokens
          /\ ids[1] = StartId(encoder)
          /\ n < MaxTokens
          /\ \A i \in (n + 1)..MaxTokens : ids[i] = EndId(encoder)
          /\ (\A key \in DOMAIN encoder : encoder[key] # 0)
             => /\ n = Kept(flat) + 1
                /\ \A i \in 1..Kept(flat) : ids[i + 1] = flat[i]

\* A text of more word ids than fit has been encoded by the vocabulary
\* tokenizer, and its output ends with the end-of-text id.
C33_Witness ==
  \E e \in DOMAIN evaluated :
    /\ evaluated[e].fn = "encode" /\ evaluated[e].variant = "clip"
    /\ Len(TextIds(evaluated[e].encoder, evaluated[e].text)) > 74
    /\ evaluated[e].out.ids[75] = 320
    /\ evaluated[e].out.ids[76] = EndId(evaluated[e].encoder)

\* C34: word lookup.  A word that is a key of the vocabulary is encoded in
\* one slot holding that word's id, whatever the id, 0 included; word+suffix
\* and the characters are used only when the word is not a key.
C34_WordLookup ==
  \A e \in DOMAIN evaluated :
    (evaluated[e].fn = "encode" /\ evaluated[e].variant = "clip")
    => LET flat == TextIds(evaluated[e].encoder, evaluated[e].text)
       IN \A i \in 1..Kept(flat) : evaluated[e].out.ids[i + 1] = flat[i]

\* C35: pooled output on both paths.  When a generation returns a model-path
\* result of n bytes, the buffer pool has an entry of n bytes: the output
\* buffer was acquired through the pool, as on the fallback path.
C35_ModelPathPooled ==
  [][\A s \in Slots :
       (calls[s].pc = "vae" /\ calls'[s].pc = "done" /\ calls'[s].res.source = "model")
       => /\ calls'[s].res.bytes \in Sizes
          /\ bufferPool'[calls'[s].res.bytes].present]_vars

\* C36: dispose during a generation.  A generation for a regular request that
\* ran beside another call, a dispose that cleared or released sessions it
\* was about to use included, returns success:true with a pixel buffer of the
\* size its metadata states; it never returns success:false and never raises.
C36_DisposeDuringGeneration ==
  \A s \in Slots :
    (/\ GenerateDone(s) /\ ~calls[s].alone
     /\ ~BlankPrompt(calls[s].cfg.prompt)
     /\ calls[s].cfg.dims[1] > 0 /\ calls[s].cfg.dims[2] > 0)
    => /\ calls[s].res.success
       /\ calls[s].res.source # "exception"
       /\ calls[s].res.bytes = calls[s].res.width * calls[s].res.height * 4
       /\ calls[s].res.pixels # NoImage

\* A generation that passed the readiness test and ran the text encoder
\* found the UNet session cleared by a dispose, and has returned the
\* placeholder image.
C36_Witness ==
  \E s \in Slots :
    /\ GenerateDone(s) /\ ~calls[s].alone
    /\ calls[s].ran = <<"te">> /\ calls[s].failed = "unet"
    /\ calls[s].res.success /\ calls[s].res.source = "fallback"

\* A step gives up the reference `old` of the session variable of kind k
\* without a dispose having released that very handle.
Dropped(k, old, new) ==
  /\ old # 0 /\ new # old
  /\ ~\E s \in Slots :
        /\ calls[s].kind = "dispose" /\ calls[s].pc = k /\ calls[s].h = old
        /\ calls'[s].pc # k

\* C37: no handle is dropped unreleased.  A session variable gives up the
\* handle it holds only when a dispose has released that handle; a load
\* issued while models are loaded does not overwrite a reference without
\* the old handle being released.
C37_NoHandleDropped ==
  [][/\ ~Dropped("unet", unetSession, unetSession')
     /\ ~Dropped("te", textEncoderSession, textEncoderSession')
     /\ ~Dropped("vae", vaeDecoderSession, vaeDecoderSession')]_vars

\* C38: concurrent fallback generations.  A placeholder generation that was
\* in flight together with another one returns the image of its own request,
\* the pixels it returns when run alone, also when both use the pooled
\* buffer of the same byte length.
C38_ConcurrentFallback ==
  \A s \in Slots :
    (FallbackDone(s) /\ ~calls[s].alone)
    => /\ calls[s].res.pixels = FallbackImage(calls[s].cfg)
       /\ imageData(calls[s].res) = FallbackImage(calls[s].cfg)

\* Two placeholder generations of the same byte length and different
\* content were in flight together and have both returned.
C38_Witness ==
  \E s, t \in Slots :
    /\ FallbackDone(s) /\ FallbackDone(t)
    /\ ~calls[s].alone /\ ~calls[t].alone
    /\ calls[s].res.bytes = calls[t].res.bytes
    /\ calls[s].cfg.seed # calls[t].cfg.seed
    /\ calls[s].res.pixels # calls[t].res.pixels

\* C39: models-loaded flag.  In every state where the UI's flag is true the
\* most recent load has returned success and no dispose has completed since
\* (so the sessions have not all been cleared).
C39_FlagAccurate ==
  modelsLoaded =>
    /\ lastLoad = "success"
    /\ ~(unetSession = 0 /\ textEncoderSession = 0 /\ vaeDecoderSession = 0)
====
